---- MODULE Spec2Model ----
(* TrustSync backend (src/index.js): notification routing with timed      *)
(* fallback, device login / SIM binding, acknowledgement and inbox.       *)
(* Every HTTP handler runs to completion on Node's single thread, so each *)
(* handler is one atomic action; setTimeout callbacks are separate steps. *)
EXTENDS Integers, Sequences, FiniteSets, TLC

VARIABLES TELEMETRY, USER_EVENTS, EVENT_ORDER, USER_DB, DEVICE_CONTEXT_STORE,
          timers, clock, uuid_count, last, dispatch_ctx, acked, last_binding, armed_ids

vars == <<TELEMETRY, USER_EVENTS, EVENT_ORDER, USER_DB, DEVICE_CONTEXT_STORE,
          timers, clock, uuid_count, last, dispatch_ctx, acked, last_binding, armed_ids>>

----------------------------------------------------------------------------
(* Bounds of the model *)

\* number of ids uuidv4() hands out
MaxUuid == 1
\* timeouts the clock runs through
MaxDeadlines == 1
\* longest per-user event list a dispatch still appends to
MaxInbox == 2
\* most timers pending at once
MaxTimers == 2
\* longest log /ack and /complete-binding still append to
MaxLogs == 3

----------------------------------------------------------------------------
(* Values *)

\* JS undefined for a missing string field of a request body
Undefined == "undefined"
\* JS null in a channel field
Null == "null"
\* JS null in a timestamp field; now() never yields it
NullTs == 0
\* a missing (falsy) event_id in a request body
NoId == 0

Users == {"demo_user", "u2"}
Devices == {"device_888", "device_999"}
FlagKeys == {"has_app", "is_active", "device_online", "whatsapp_opt_in"}
\* event ids a caller makes up itself
SuppliedIds == {1}
\* the n-th identifier generated by uuidv4(): fresh, never a supplied id
uuidv4(n) == Cardinality(SuppliedIds) + n
AllIds == SuppliedIds \cup {uuidv4(n) : n \in 1..MaxUuid}
\* every object with some of the four flags, each true or false
AllContexts == UNION {[D -> BOOLEAN] : D \in SUBSET FlagKeys}
EmptyObj == [k \in {} |-> TRUE]

\* JS truthiness of ctx.k for a boolean-or-missing property
Truthy(ctx, k) == k \in DOMAIN ctx /\ ctx[k] = TRUE

\* object spread {...a, ...b}: b's properties win
Spread(a, b) == b @@ a

\* config.WHATSAPP_TIMEOUT_MS, the delay of both setTimeout calls
WHATSAPP_TIMEOUT_MS == 20000

\* now(): the ISO string of the millisecond clock, injective in the clock
now == clock

----------------------------------------------------------------------------
(* Stores helpers *)

pushUserEvent(UE, userId, eventId) ==
  IF userId \notin DOMAIN UE
    THEN (userId :> <<eventId>>) @@ UE
    ELSE [UE EXCEPT ![userId] = Append(@, eventId)]

\* a log call that creates the record it does not find
recordLog_CreatesRecord(T, event_id, msg) ==
  IF event_id \in DOMAIN T
    THEN [T EXCEPT ![event_id].logs = Append(@, [ts |-> now, msg |-> msg])]
    ELSE (event_id :> [logs |-> <<[ts |-> now, msg |-> msg]>>]) @@ T

recordLog(T, event_id, msg) ==
  IF event_id \notin DOMAIN T
    THEN T
    ELSE [T EXCEPT ![event_id].logs = Append(@, [ts |-> now, msg |-> msg])]

\* EVENT_ORDER.includes(id) / unshift(id)
Includes(s, x) == \E i \in 1..Len(s) : s[i] = x
Unshift(s, x) == <<x>> \o s
orderAdd(EO, event_id) == IF Includes(EO, event_id) THEN EO ELSE Unshift(EO, event_id)

\* DEVICE_CONTEXT_STORE[user_id] || {}
storedContext(user_id) ==
  IF user_id \in DOMAIN DEVICE_CONTEXT_STORE THEN DEVICE_CONTEXT_STORE[user_id] ELSE EmptyObj

\* some timer armed for event e has not fired yet
Pending(e) == \E i \in 1..Len(timers) : timers[i].event_id = e

Response(op, user_id, device_id, event_id, user_context, status, channel, armed) ==
  [op |-> op, user_id |-> user_id, device_id |-> device_id, event_id |-> event_id,
   user_context |-> user_context, status |-> status, channel |-> channel, armed |-> armed]

----------------------------------------------------------------------------
Init ==
  /\ TELEMETRY = EmptyObj
  /\ USER_EVENTS = EmptyObj
  /\ EVENT_ORDER = <<>>
  /\ USER_DB = [u \in {"demo_user"} |->
                  [registered_device_id |-> "device_888", is_registered |-> TRUE]]
  /\ DEVICE_CONTEXT_STORE =
       [u \in {"demo_user"} |->
          ("device_status" :> "KNOWN") @@
          [has_app |-> TRUE, is_active |-> FALSE, device_online |-> TRUE,
           whatsapp_opt_in |-> TRUE]]
  /\ timers = <<>>
  /\ clock = 1
  /\ uuid_count = 0
  /\ last = Response("start", Undefined, Undefined, NoId, EmptyObj, "none", Null, FALSE)
  /\ dispatch_ctx = EmptyObj
  /\ acked = {}
  /\ last_binding = EmptyObj
  /\ armed_ids = {}

\* whole timeouts gone by since the process started at clock 1
deadlinesPassed == (clock - 1) \div WHATSAPP_TIMEOUT_MS

\* time passes between two handlers, observed one timeout at a time
Tick ==
  /\ deadlinesPassed < MaxDeadlines
  /\ clock' = clock + WHATSAPP_TIMEOUT_MS
  /\ UNCHANGED <<TELEMETRY, USER_EVENTS, EVENT_ORDER, USER_DB, DEVICE_CONTEXT_STORE,
                 timers, uuid_count, last, dispatch_ctx, acked, last_binding, armed_ids>>


----------------------------------------------------------------------------
(* POST /update-context *)

UpdateContext(user_id, context) ==
  LET targetUser == IF user_id = Undefined THEN "demo_user" ELSE user_id
  IN /\ DEVICE_CONTEXT_STORE' =
          (targetUser :> Spread(storedContext(targetUser), context)) @@ DEVICE_CONTEXT_STORE
     /\ last' = Response("update-context", user_id, Undefined, NoId, context, "ok", Null, FALSE)
     /\ UNCHANGED <<TELEMETRY, USER_EVENTS, EVENT_ORDER, USER_DB, timers, clock,
                    uuid_count, dispatch_ctx, acked, last_binding, armed_ids>>

----------------------------------------------------------------------------
(* POST /login *)

\* simContext.device_status === 'KNOWN'
deviceKnown(simContext) ==
  "device_status" \in DOMAIN simContext /\ simContext["device_status"] = "KNOWN"

Login(user_id, device_id) ==
  /\ uuid_count < MaxUuid
  /\ LET event_id == uuidv4(uuid_count + 1)
         simContext == storedContext(user_id)
         rec == [event_id |-> event_id, user_id |-> user_id,
                 event_type |-> "LOGIN_ATTEMPT", chosen_channel |-> "ANALYZING",
                 sent_ts |-> now, ack_ts |-> NullTs,
                 fallback_triggered |-> FALSE, fallback_channel |-> Null, logs |-> <<>>]
         T0 == (event_id :> rec) @@ TELEMETRY
         T1 == recordLog(T0, event_id, <<"Login attempt from Device ID", device_id>>)
         TA == [T1 EXCEPT ![event_id].event_type = "TRUSTED_LOGIN",
                          ![event_id].chosen_channel = "IN_APP"]
         TB == [T1 EXCEPT ![event_id].event_type = "NEW_DEVICE_LOGIN",
                          ![event_id].chosen_channel = "SMS_BINDING"]
     IN /\ uuid_count' = uuid_count + 1
        /\ EVENT_ORDER' = orderAdd(EVENT_ORDER, event_id)
        /\ USER_EVENTS' = pushUserEvent(USER_EVENTS, user_id, event_id)
        /\ IF deviceKnown(simContext)
             THEN /\ TELEMETRY' =
                       recordLog(recordLog(TA, event_id, <<"Device ID matched registry">>),
                                 event_id, <<"Trust Score: HIGH. Sending In-App Flash">>)
                  /\ last' = Response("login", user_id, device_id, event_id, EmptyObj,
                                      "TRUSTED", "IN_APP", FALSE)
             ELSE /\ TELEMETRY' =
                       recordLog(recordLog(TB, event_id, <<"Device ID mismatch (Unknown Device)">>),
                                 event_id, <<"Security Policy: Force SIM Binding (Upstream SMS)">>)
                  /\ last' = Response("login", user_id, device_id, event_id, EmptyObj,
                                      "BINDING_REQUIRED", "SMS_BINDING", FALSE)
  /\ UNCHANGED <<USER_DB, DEVICE_CONTEXT_STORE, timers, clock, dispatch_ctx, acked,
                 last_binding, armed_ids>>

----------------------------------------------------------------------------
(* POST /complete-binding *)

\* a registry write that leaves an existing binding alone
bindDevice_KeepExisting(DB, user_id, device_id) ==
  IF user_id \in DOMAIN DB
    THEN DB
    ELSE (user_id :> [registered_device_id |-> device_id, is_registered |-> TRUE]) @@ DB

\* USER_DB[user_id] = { registered_device_id: device_id, is_registered: true }
bindDevice(DB, user_id, device_id) ==
  (user_id :> [registered_device_id |-> device_id, is_registered |-> TRUE]) @@ DB

CompleteBinding(user_id, device_id, event_id) ==
  LET oldID == IF user_id \in DOMAIN USER_DB
                 THEN USER_DB[user_id].registered_device_id ELSE "none"
      hit == event_id # NoId /\ event_id \in DOMAIN TELEMETRY
      T0 == [TELEMETRY EXCEPT ![event_id].ack_ts = now]
      T1 == recordLog(T0, event_id, <<"Encrypted SMS received at Bank Server">>)
      T2 == recordLog(T1, event_id, <<"Registry Updated: Replaced", oldID, device_id>>)
  IN /\ hit => Len(TELEMETRY[event_id].logs) < MaxLogs
     /\ USER_DB' = bindDevice(USER_DB, user_id, device_id)
     \* history: the device of the most recent /complete-binding of each user
     /\ last_binding' = (user_id :> device_id) @@ last_binding
     /\ TELEMETRY' = IF hit THEN T2 ELSE TELEMETRY
     /\ last' = Response("complete-binding", user_id, device_id, event_id, EmptyObj,
                         "ok", Null, FALSE)
     /\ UNCHANGED <<USER_EVENTS, EVENT_ORDER, DEVICE_CONTEXT_STORE, timers, clock,
                    uuid_count, dispatch_ctx, acked, armed_ids>>

----------------------------------------------------------------------------
(* POST /ack *)

Ack(event_id, channel) ==
  LET hit == event_id \in DOMAIN TELEMETRY
      T0 == [TELEMETRY EXCEPT ![event_id].ack_ts = now]
      T1 == recordLog(T0, event_id, <<"ACK received via", channel>>)
  IN /\ hit => Len(TELEMETRY[event_id].logs) < MaxLogs
     /\ TELEMETRY' = IF hit THEN T1 ELSE TELEMETRY
     \* history: the events acknowledged while their deadline timer was pending
     \* and nothing had escalated
     /\ acked' = IF hit /\ Pending(event_id) /\ ~TELEMETRY[event_id].fallback_triggered
                   THEN acked \cup {event_id} ELSE acked
     /\ last' = Response("ack", Undefined, Undefined, event_id, EmptyObj, "ok", channel, FALSE)
     /\ UNCHANGED <<USER_EVENTS, EVENT_ORDER, USER_DB, DEVICE_CONTEXT_STORE, timers, clock,
                    uuid_count, dispatch_ctx, last_binding, armed_ids>>

----------------------------------------------------------------------------
(* POST /send-notification *)

\* the merge with the operands swapped: the caller's flags win
effectiveContext_CallerWins(user_context, simulatedContext) ==
  Spread(simulatedContext, user_context)

\* const ctx = { ...body.user_context, ...simulatedContext }
effectiveContext(user_context, simulatedContext) == Spread(user_context, simulatedContext)

\* the cascade with branch B) forgetting device_online
selectChannel_PushOffline(ctx) ==
  IF Truthy(ctx, "has_app") /\ Truthy(ctx, "is_active") /\ Truthy(ctx, "device_online")
    THEN "IN_APP"
  ELSE IF Truthy(ctx, "has_app")
    THEN "PUSH"
  ELSE IF Truthy(ctx, "whatsapp_opt_in") /\ Truthy(ctx, "device_online")
    THEN "WHATSAPP"
  ELSE "SMS"

\* the routing cascade A) .. D): the first branch whose condition is truthy returns
selectChannel(ctx) ==
  IF Truthy(ctx, "has_app") /\ Truthy(ctx, "is_active") /\ Truthy(ctx, "device_online")
    THEN "IN_APP"
  ELSE IF Truthy(ctx, "has_app") /\ Truthy(ctx, "device_online")
    THEN "PUSH"
  ELSE IF Truthy(ctx, "whatsapp_opt_in") /\ Truthy(ctx, "device_online")
    THEN "WHATSAPP"
  ELSE "SMS"

\* the branches that call setTimeout
armsTimer(channel) == channel \in {"PUSH", "WHATSAPP"}

\* the closure handed to setTimeout: the callback of the branch, with the
\* event_id and ctx of the request that armed it
timerClosure(channel, event_id, ctx) ==
  [branch |-> channel, event_id |-> event_id, ctx |-> ctx, due |-> clock + WHATSAPP_TIMEOUT_MS]

\* a dispatch that takes the user_id of the body as it comes
dispatchUser_NoDefault(body_user_id) == body_user_id

\* const user_id = body.user_id || 'demo_user'
dispatchUser(body_user_id) == IF body_user_id = Undefined THEN "demo_user" ELSE body_user_id

SendNotification(body_event_id, body_user_id, body_event_type, user_context) ==
  /\ body_event_id = NoId => uuid_count < MaxUuid
  /\ LET event_id == IF body_event_id = NoId THEN uuidv4(uuid_count + 1) ELSE body_event_id
         user_id == dispatchUser(body_user_id)
         event_type == IF body_event_type = Undefined THEN "LOGIN_OTP" ELSE body_event_type
         simulatedContext == storedContext(user_id)
         ctx == effectiveContext(user_context, simulatedContext)
         channel == selectChannel(ctx)
         rec == [event_id |-> event_id, user_id |-> user_id, event_type |-> event_type,
                 chosen_channel |-> Null, sent_ts |-> NullTs, ack_ts |-> NullTs,
                 fallback_triggered |-> FALSE, fallback_channel |-> Null, logs |-> <<>>]
         T0 == (event_id :> rec) @@ TELEMETRY
         T1 == [T0 EXCEPT ![event_id].chosen_channel = channel, ![event_id].sent_ts = now]
     IN /\ user_id \in DOMAIN USER_EVENTS => Len(USER_EVENTS[user_id]) < MaxInbox
        /\ armsTimer(channel) => Len(timers) < MaxTimers /\ deadlinesPassed < MaxDeadlines
        /\ uuid_count' = IF body_event_id = NoId THEN uuid_count + 1 ELSE uuid_count
        /\ EVENT_ORDER' = orderAdd(EVENT_ORDER, event_id)
        /\ USER_EVENTS' = pushUserEvent(USER_EVENTS, user_id, event_id)
        /\ TELEMETRY' = recordLog(T1, event_id, <<"Route", channel>>)
        /\ timers' = IF armsTimer(channel)
                       THEN Append(timers, timerClosure(channel, event_id, ctx))
                       ELSE timers
        /\ dispatch_ctx' = (event_id :> ctx) @@ dispatch_ctx
        \* history: the events a timer has been armed for
        /\ armed_ids' = IF armsTimer(channel) THEN armed_ids \cup {event_id} ELSE armed_ids
        /\ last' = Response("send-notification", body_user_id, Undefined, event_id,
                            user_context, "ok", channel, armsTimer(channel))
  /\ UNCHANGED <<USER_DB, DEVICE_CONTEXT_STORE, clock, acked, last_binding>>

----------------------------------------------------------------------------
(* the setTimeout callbacks *)

\* the guard without the ack_ts test
timerReturnsEarly_NoAckTest(T, event_id) == event_id \notin DOMAIN T

\* if (!TELEMETRY[event_id] || TELEMETRY[event_id].ack_ts) return;
timerReturnsEarly(T, event_id) == event_id \notin DOMAIN T \/ T[event_id].ack_ts # NullTs

\* the channel the callback of each branch falls back to
fallbackOf(branch, ctx) ==
  IF branch = "PUSH"
    THEN (IF Truthy(ctx, "whatsapp_opt_in") THEN "WHATSAPP" ELSE "SMS")
    ELSE "SMS"

\* a callback that logs the fallback but forgets to flag the record
commitFallback_LogOnly(T, event_id, fallback) ==
  recordLog(T, event_id, <<"No ACK -> Fallback to", fallback>>)

\* a callback that also moves the record to the fallback channel
commitFallback_Reroutes(T, event_id, fallback) ==
  recordLog([T EXCEPT ![event_id].fallback_triggered = TRUE,
                      ![event_id].fallback_channel = fallback,
                      ![event_id].chosen_channel = fallback],
            event_id, <<"No ACK -> Fallback to", fallback>>)

\* the writes of a callback that did not return early
commitFallback(T, event_id, fallback) ==
  recordLog([T EXCEPT ![event_id].fallback_triggered = TRUE,
                      ![event_id].fallback_channel = fallback],
            event_id, <<"No ACK -> Fallback to", fallback>>)

\* Both branches arm with config.WHATSAPP_TIMEOUT_MS, so timers expire in the
\* order they were armed: the oldest pending timer fires next, once it is due.
TimerFire ==
  /\ timers # <<>>
  /\ clock >= Head(timers).due
  /\ LET t == Head(timers)
     IN /\ timers' = Tail(timers)
        /\ TELEMETRY' = IF timerReturnsEarly(TELEMETRY, t.event_id)
                          THEN TELEMETRY
                          ELSE commitFallback(TELEMETRY, t.event_id, fallbackOf(t.branch, t.ctx))
  /\ UNCHANGED <<USER_EVENTS, EVENT_ORDER, USER_DB, DEVICE_CONTEXT_STORE, clock,
                 uuid_count, last, dispatch_ctx, acked, last_binding, armed_ids>>

----------------------------------------------------------------------------
(* GET /events and GET /inbox/:userId *)

Reverse(s) == [i \in 1..Len(s) |-> s[Len(s) + 1 - i]]

\* EVENT_ORDER.slice(0, limit).map(id => TELEMETRY[id]).filter(Boolean)
listRecent(limit) ==
  LET ids == SubSeq(EVENT_ORDER, 1, IF Len(EVENT_ORDER) < limit THEN Len(EVENT_ORDER) ELSE limit)
      present == SelectSeq(ids, LAMBDA id : id \in DOMAIN TELEMETRY)
  IN [i \in 1..Len(present) |-> TELEMETRY[present[i]]]

\* (USER_EVENTS[userId] || []).map(id => TELEMETRY[id]).filter(evt => evt).reverse()
listForUser(userId) ==
  LET eventIds == IF userId \in DOMAIN USER_EVENTS THEN USER_EVENTS[userId] ELSE <<>>
      present == SelectSeq(eventIds, LAMBDA id : id \in DOMAIN TELEMETRY)
  IN Reverse([i \in 1..Len(present) |-> TELEMETRY[present[i]]])

----------------------------------------------------------------------------
(* Requests the clients send *)

\* ids a caller can name: its own, or one a response has returned
KnownIds == SuppliedIds \cup {uuidv4(n) : n \in 1..uuid_count}
EventTypes == {Undefined, "TXN_ALERT"}
AckChannels == {"PUSH"}
\* contexts posted to /send-notification
RequestContexts == {EmptyObj,
                    [has_app |-> TRUE, is_active |-> TRUE, device_online |-> TRUE],
                    [has_app |-> TRUE, is_active |-> FALSE, device_online |-> TRUE,
                     whatsapp_opt_in |-> FALSE],
                    [has_app |-> TRUE, device_online |-> TRUE, whatsapp_opt_in |-> TRUE],
                    [device_online |-> TRUE, whatsapp_opt_in |-> TRUE]}

\* Escalation and acknowledgement: dispatch, acknowledgement, binding
\* confirmation and the timers, interleaved.
Next ==
  \/ Tick
  \/ \E e \in KnownIds \cup {NoId} : CompleteBinding("demo_user", "device_999", e)
  \/ \E e \in SuppliedIds, c \in RequestContexts : SendNotification(e, "u2", Undefined, c)
  \/ \E e \in AllIds, ch \in AckChannels : Ack(e, ch)
  \/ TimerFire

Spec == Init /\ [][Next]_vars

\* Time passes, and Node's event loop runs the callback of every timer that
\* has expired.
FairSpec == Spec /\ WF_vars(Tick) /\ WF_vars(TimerFire)

\* Routing: one dispatch, with any request context, onto any stored context.
NextRoute ==
  \/ /\ TELEMETRY = EmptyObj
     /\ \E u \in {"demo_user", Undefined}, k \in FlagKeys, v \in BOOLEAN :
           UpdateContext(u, (k :> v))
  \/ /\ TELEMETRY = EmptyObj
     /\ \E c \in {[whatsapp_opt_in |-> TRUE], [is_active |-> FALSE]} : UpdateContext("u2", c)
  \/ /\ TELEMETRY = EmptyObj
     /\ \E e \in SuppliedIds \cup {NoId}, u \in Users \cup {Undefined}, t \in EventTypes,
           c \in AllContexts : SendNotification(e, u, t, c)
  \/ Tick
  \/ TimerFire

SpecRoute == Init /\ [][NextRoute]_vars

\* contexts that route to PUSH and to WHATSAPP, the two branches with a timer
FrameContexts == {[has_app |-> TRUE, device_online |-> TRUE, whatsapp_opt_in |-> TRUE],
                  [device_online |-> TRUE, whatsapp_opt_in |-> TRUE]}

\* Several records side by side: dispatches under a supplied and under a
\* generated event id, acknowledgement and the timers.
NextFrame ==
  \/ Tick
  \/ \E e \in SuppliedIds \cup {NoId}, c \in FrameContexts :
        SendNotification(e, "u2", Undefined, c)
  \/ \E e \in AllIds, ch \in AckChannels : Ack(e, ch)
  \/ TimerFire

SpecFrame == Init /\ [][NextFrame]_vars

\* Login and binding: the trust decision and the registry.
NextTrust ==
  \/ \E u \in Users, c \in {("device_status" :> "NEW"), ("device_status" :> "KNOWN")} :
        UpdateContext(u, c)
  \/ \E u \in Users, d \in Devices : Login(u, d)
  \/ \E u \in Users, d \in Devices, e \in KnownIds \cup {NoId} : CompleteBinding(u, d, e)
  \/ \E e \in AllIds, ch \in AckChannels : Ack(e, ch)

SpecTrust == Init /\ [][NextTrust]_vars

----------------------------------------------------------------------------
(* Properties *)

Records == DOMAIN TELEMETRY
IsFallbackLog(entry) == entry.msg[1] = "No ACK -> Fallback to"
IsAckLog(entry) ==
  entry.msg[1] \in {"ACK received via", "Encrypted SMS received at Bank Server",
                    "Registry Updated: Replaced"}

\* C1: once an acknowledgement has landed on an event before its deadline
\* timer fired, the record of that event never has fallback_triggered = true.
C1_AckBeforeDeadlineBlocksFallback ==
  \A e \in acked : ~TELEMETRY[e].fallback_triggered

\* C2: once ack_ts of a record is non-null, no step changes it.
C2_AckTsFinal ==
  [][\A e \in Records :
       TELEMETRY[e].ack_ts # NullTs => TELEMETRY'[e].ack_ts = TELEMETRY[e].ack_ts]_vars

\* C3: fallback_triggered never goes back from true to false (so it rises at
\* most once), and every step that raises it starts with ack_ts null.
C3_FallbackRisesOnce ==
  [][\A e \in Records :
       /\ TELEMETRY[e].fallback_triggered => TELEMETRY'[e].fallback_triggered
       /\ (~TELEMETRY[e].fallback_triggered /\ TELEMETRY'[e].fallback_triggered)
            => TELEMETRY[e].ack_ts = NullTs]_vars

\* C4 as claimed: no record has both ack_ts non-null and fallback_triggered.
C4_NeverBothAckAndFallback ==
  \A e \in Records : ~(TELEMETRY[e].ack_ts # NullTs /\ TELEMETRY[e].fallback_triggered)

\* C4: the timer never commits a fallback on an acknowledged record: in the
\* audit trail of a record no fallback entry follows an acknowledgement entry,
\* and a record with both ack_ts and fallback_triggered set was escalated
\* first and acknowledged afterwards.
C4_FallbackNeverAfterAck ==
  \A e \in Records :
    LET logs == TELEMETRY[e].logs
    IN /\ \A i, j \in 1..Len(logs) :
            i < j => ~(IsAckLog(logs[i]) /\ IsFallbackLog(logs[j]))
       /\ (TELEMETRY[e].ack_ts # NullTs /\ TELEMETRY[e].fallback_triggered)
            => \E i, j \in 1..Len(logs) :
                  i < j /\ IsFallbackLog(logs[i]) /\ IsAckLog(logs[j])

C4_Witness ==
  \E e \in Records :
    /\ TELEMETRY[e].ack_ts # NullTs
    /\ ~TELEMETRY[e].fallback_triggered
    /\ ~Pending(e)
    /\ TELEMETRY[e].chosen_channel \in {"PUSH", "WHATSAPP"}

\* C5: the channel of every dispatched record is the priority cascade over the
\* four flags of the context the dispatch used, a missing flag counting as false.
C5_ChannelCascade ==
  \A e \in DOMAIN dispatch_ctx :
    LET h == Truthy(dispatch_ctx[e], "has_app")
        a == Truthy(dispatch_ctx[e], "is_active")
        o == Truthy(dispatch_ctx[e], "device_online")
        w == Truthy(dispatch_ctx[e], "whatsapp_opt_in")
        ch == TELEMETRY[e].chosen_channel
    IN /\ ch \in {"IN_APP", "PUSH", "WHATSAPP", "SMS"}
       /\ ch = "IN_APP" <=> (h /\ a /\ o)
       /\ ch = "PUSH" <=> (h /\ ~a /\ o)
       /\ ch = "WHATSAPP" <=> (~h /\ w /\ o)
       /\ ch = "SMS" <=> (~o \/ (~h /\ ~w))
       /\ (last.op = "send-notification" /\ last.event_id = e) => last.channel = ch

C5_Witness ==
  \E e \in DOMAIN dispatch_ctx :
    /\ TELEMETRY[e].chosen_channel = "WHATSAPP"
    /\ "has_app" \notin DOMAIN dispatch_ctx[e]
    /\ "is_active" \in DOMAIN dispatch_ctx[e] /\ dispatch_ctx[e]["is_active"] = TRUE

\* C6: a pending deadline timer of an event leads to a record that is either
\* escalated (fallback_triggered, a fallback channel, a fallback log entry)
\* or acknowledged.
Escalated(e) ==
  /\ e \in Records
  /\ TELEMETRY[e].fallback_triggered
  /\ TELEMETRY[e].fallback_channel \in {"WHATSAPP", "SMS"}
  /\ \E i \in 1..Len(TELEMETRY[e].logs) : IsFallbackLog(TELEMETRY[e].logs[i])

C6_EscalationEventually ==
  \A e \in AllIds :
    Pending(e) ~> (Escalated(e) \/ (e \in Records /\ TELEMETRY[e].ack_ts # NullTs))

C6_Witness ==
  \E e \in Records :
    /\ Escalated(e)
    /\ TELEMETRY[e].ack_ts = NullTs
    /\ TELEMETRY[e].chosen_channel = "PUSH"
    /\ ~Pending(e)

\* C7: an escalated PUSH record falls back to WHATSAPP if the context of its
\* dispatch had whatsapp_opt_in and to SMS otherwise; an escalated WHATSAPP
\* record falls back to SMS.
C7_FallbackChannelValue ==
  \A e \in DOMAIN dispatch_ctx :
    TELEMETRY[e].fallback_triggered =>
      /\ TELEMETRY[e].chosen_channel = "PUSH" =>
           TELEMETRY[e].fallback_channel =
             (IF Truthy(dispatch_ctx[e], "whatsapp_opt_in") THEN "WHATSAPP" ELSE "SMS")
      /\ TELEMETRY[e].chosen_channel = "WHATSAPP" => TELEMETRY[e].fallback_channel = "SMS"

\* the request of the last dispatch supplied has_app, is_active, device_online all true
SuppliedAllThree ==
  /\ last.op = "send-notification"
  /\ \A k \in {"has_app", "is_active", "device_online"} : Truthy(last.user_context, k)

\* the user whose stored context the last request addressed
LastUser == IF last.user_id = Undefined THEN "demo_user" ELSE last.user_id

\* C8 as claimed: a dispatch that supplies the three flags as true is routed
\* IN_APP with sent_ts stamped and no timer armed, whatever is stored.
C8_SuppliedContextDecides ==
  SuppliedAllThree =>
    /\ last.channel = "IN_APP"
    /\ TELEMETRY[last.event_id].sent_ts # NullTs
    /\ ~last.armed

\* C8: the stored context takes precedence flag by flag, the caller's value
\* counting only for a flag the stored context lacks; so a dispatch supplying
\* the three flags as true is routed IN_APP (sent_ts stamped, no timer armed)
\* exactly when the stored context sets none of the three to false.
C8_StoredContextDecides ==
  last.op = "send-notification" =>
    LET stored == storedContext(LastUser)
        eff(k) == IF k \in DOMAIN stored THEN stored[k] = TRUE
                                         ELSE Truthy(last.user_context, k)
        three == {"has_app", "is_active", "device_online"}
    IN /\ last.channel = "IN_APP" <=> \A k \in three : eff(k)
       /\ last.channel = "IN_APP" => ~last.armed
       /\ TELEMETRY[last.event_id].sent_ts # NullTs
       /\ SuppliedAllThree =>
            (last.channel = "IN_APP" <=>
               \A k \in three : k \in DOMAIN stored => stored[k] = TRUE)

C8_Witness ==
  /\ SuppliedAllThree
  /\ LastUser = "demo_user"
  /\ "is_active" \in DOMAIN storedContext("demo_user")
  /\ storedContext("demo_user")["is_active"] = FALSE
  /\ last.channel = "PUSH"
  /\ last.armed

\* C9: the inbox of a user holds each event id at most once, newest first.
C9_InboxDistinctNewestFirst ==
  \A u \in Users :
    LET inbox == listForUser(u)
    IN /\ \A i, j \in 1..Len(inbox) : i # j => inbox[i].event_id # inbox[j].event_id
       /\ \A i, j \in 1..Len(inbox) : i < j => inbox[i].sent_ts >= inbox[j].sent_ts

\* C10: a login is answered TRUSTED / IN_APP exactly when the device id of the
\* request is the one the registry binds to the user, and BINDING_REQUIRED /
\* SMS_BINDING with event_type NEW_DEVICE_LOGIN when it differs.
C10_TrustFollowsRegistry ==
  last.op = "login" =>
    LET bound == last.user_id \in DOMAIN USER_DB
                   /\ USER_DB[last.user_id].registered_device_id = last.device_id
    IN /\ (last.status = "TRUSTED" /\ last.channel = "IN_APP") <=> bound
       /\ ~bound => /\ last.status = "BINDING_REQUIRED"
                    /\ last.channel = "SMS_BINDING"
                    /\ TELEMETRY[last.event_id].event_type = "NEW_DEVICE_LOGIN"

\* C11: once /complete-binding has bound device d to user u, and until the
\* next /complete-binding of u, a login of u from d is answered TRUSTED.
C11_BoundDeviceIsTrusted ==
  (/\ last.op = "login"
   /\ last.user_id \in DOMAIN last_binding
   /\ last_binding[last.user_id] = last.device_id)
    => last.status = "TRUSTED"

\* C12: /ack, recordLog and a timer callback that name an event id with no
\* record return without effect: /ack answers ok, and every telemetry record,
\* the event index and the per-user index stay as they were, so no record is
\* created for the id.
C12_UnknownIdIsNoOp ==
  [][\A e \in AllIds \ Records :
       /\ recordLog(TELEMETRY, e, <<"ACK received via", "PUSH">>) = TELEMETRY
       /\ timerReturnsEarly(TELEMETRY, e)
       /\ \A ch \in AckChannels :
            Ack(e, ch) => /\ last'.status = "ok"
                          /\ UNCHANGED <<TELEMETRY, EVENT_ORDER, USER_EVENTS>>]_vars

\* an /ack for an id without a record was answered while another record exists
C12_Witness ==
  /\ last.op = "ack"
  /\ last.status = "ok"
  /\ last.event_id \notin Records
  /\ Records # {}

\* C13 as stated: a dispatch without user_id is rejected with InvalidInput,
\* creates no record, adds nothing to an index and arms no timer.
C13_MissingUserRejected ==
  (last.op = "send-notification" /\ last.user_id = Undefined)
    => /\ last.status = "InvalidInput"
       /\ last.event_id \notin Records
       /\ ~Includes(EVENT_ORDER, last.event_id)
       /\ \A u \in DOMAIN USER_EVENTS : ~Includes(USER_EVENTS[u], last.event_id)
       /\ last.event_id \notin armed_ids

\* C13: a dispatch without user_id is served as a dispatch for demo_user: it
\* answers ok, creates the record under user_id demo_user, enters both indexes,
\* routes by demo_user's stored context and arms a timer exactly for PUSH and
\* WHATSAPP.
C13_MissingUserDefaults ==
  (last.op = "send-notification" /\ last.user_id = Undefined)
    => /\ last.status = "ok"
       /\ last.event_id \in Records
       /\ TELEMETRY[last.event_id].user_id = "demo_user"
       /\ Includes(EVENT_ORDER, last.event_id)
       /\ "demo_user" \in DOMAIN USER_EVENTS
       /\ USER_EVENTS["demo_user"] = <<last.event_id>>
       /\ TELEMETRY[last.event_id].chosen_channel =
            selectChannel(effectiveContext(last.user_context, storedContext("demo_user")))
       /\ last.event_id \in armed_ids
            <=> TELEMETRY[last.event_id].chosen_channel \in {"PUSH", "WHATSAPP"}

\* a dispatch without user_id left a PUSH record of demo_user with a timer armed
C13_Witness ==
  /\ last.op = "send-notification"
  /\ last.user_id = Undefined
  /\ last.event_id \in Records
  /\ TELEMETRY[last.event_id].user_id = "demo_user"
  /\ TELEMETRY[last.event_id].chosen_channel = "PUSH"
  /\ Pending(last.event_id)

\* C14: the sent_ts of a record, once set, is never changed by a later step,
\* a dispatch that names the same event id included.
C14_SentTsWrittenOnce ==
  [][\A e \in Records :
       TELEMETRY[e].sent_ts # NullTs => TELEMETRY'[e].sent_ts = TELEMETRY[e].sent_ts]_vars

\* C15: no dispatch arms a timer for an event id a timer has been armed for
\* before, so at most one timer is ever armed per event id.
C15_OneTimerPerEvent ==
  [][\A e \in AllIds :
       Len(SelectSeq(timers', LAMBDA t : t.event_id = e))
         > Len(SelectSeq(timers, LAMBDA t : t.event_id = e))
       => e \notin armed_ids]_vars

\* the fields of a record a timer callback never writes
Untouched(rec) ==
  [f \in DOMAIN rec \ {"fallback_triggered", "fallback_channel", "logs"} |-> rec[f]]

\* C16: a timer callback leaves the set of records, every other record, the
\* event index, the per-user index, the registry and the stored contexts as
\* they were; on its own record it keeps chosen_channel, sent_ts, ack_ts,
\* event_type and user_id, and either writes nothing (always so when ack_ts is
\* set) or sets fallback_triggered and fallback_channel and appends one log
\* entry.
C16_EscalationFrame ==
  [][TimerFire =>
       LET e == Head(timers).event_id
       IN /\ UNCHANGED <<EVENT_ORDER, USER_EVENTS, USER_DB, DEVICE_CONTEXT_STORE>>
          /\ DOMAIN TELEMETRY' = DOMAIN TELEMETRY
          /\ \A o \in Records \ {e} : TELEMETRY'[o] = TELEMETRY[o]
          /\ Untouched(TELEMETRY'[e]) = Untouched(TELEMETRY[e])
          /\ TELEMETRY[e].ack_ts # NullTs => TELEMETRY'[e] = TELEMETRY[e]
          /\ \/ TELEMETRY'[e] = TELEMETRY[e]
             \/ /\ TELEMETRY'[e].fallback_triggered
                /\ TELEMETRY'[e].fallback_channel \in {"WHATSAPP", "SMS"}
                /\ Len(TELEMETRY'[e].logs) = Len(TELEMETRY[e].logs) + 1
                /\ SubSeq(TELEMETRY'[e].logs, 1, Len(TELEMETRY[e].logs)) = TELEMETRY[e].logs
                /\ IsFallbackLog(TELEMETRY'[e].logs[Len(TELEMETRY'[e].logs)])]_vars

\* a callback has escalated one record that keeps its route, and the callback
\* of a second, acknowledged record has run without writing
C16_Witness ==
  \E e \in Records, o \in Records :
    /\ e # o
    /\ TELEMETRY[e].fallback_triggered
    /\ TELEMETRY[e].chosen_channel = "WHATSAPP"
    /\ TELEMETRY[e].fallback_channel = "SMS"
    /\ TELEMETRY[e].sent_ts # NullTs
    /\ TELEMETRY[o].ack_ts # NullTs
    /\ ~TELEMETRY[o].fallback_triggered
    /\ o \in armed_ids
    /\ timers = <<>>

\* C17: a record routed to IN_APP, SMS or SMS_BINDING never carries an
\* escalation: fallback_triggered is false and fallback_channel is null.
C17_TerminalChannelsNeverEscalate ==
  \A e \in Records :
    TELEMETRY[e].chosen_channel \in {"IN_APP", "SMS", "SMS_BINDING"}
      => /\ ~TELEMETRY[e].fallback_triggered
         /\ TELEMETRY[e].fallback_channel = Null

\* C18: the registry binds each user to the device of the most recent
\* /complete-binding for that user, whatever was bound before and whatever
\* event_id came with the request; the binding of a user no request named is
\* never changed; a request without event_id, or with one that has no record,
\* changes no telemetry record.
C18_LastBindingWins ==
  [][/\ \A u \in DOMAIN last_binding' :
          /\ u \in DOMAIN USER_DB'
          /\ USER_DB'[u].registered_device_id = last_binding'[u]
     /\ \A u \in Users \ DOMAIN last_binding' :
          /\ u \in DOMAIN USER_DB' <=> u \in DOMAIN USER_DB
          /\ u \in DOMAIN USER_DB => USER_DB'[u] = USER_DB[u]
     /\ (/\ last'.op = "complete-binding"
         /\ last'.event_id \notin Records
         /\ CompleteBinding(last'.user_id, last'.device_id, last'.event_id))
          => TELEMETRY' = TELEMETRY]_vars

\* demo_user has been re-bound to another device and u2 bound for the first
\* time, the last request naming an event id without a record
C18_Witness ==
  /\ DOMAIN last_binding = Users
  /\ USER_DB["demo_user"].registered_device_id = "device_999"
  /\ last.op = "complete-binding"
  /\ last.event_id # NoId
  /\ last.event_id \notin Records
  /\ Records # {}

\* C19: logs only grow: across every step the log sequence of a record is a
\* prefix of its log sequence afterwards, and every record has at least one
\* log entry.
C19_LogsAppendOnly ==
  [][/\ \A e \in Records :
          /\ e \in DOMAIN TELEMETRY'
          /\ Len(TELEMETRY[e].logs) <= Len(TELEMETRY'[e].logs)
          /\ SubSeq(TELEMETRY'[e].logs, 1, Len(TELEMETRY[e].logs)) = TELEMETRY[e].logs
     /\ \A e \in DOMAIN TELEMETRY' : Len(TELEMETRY'[e].logs) >= 1]_vars

\* C20: an escalated record names a fallback channel, WHATSAPP or SMS, that
\* differs from its chosen channel, and fallback_channel is set exactly when
\* fallback_triggered is.
C20_FallbackDiffersFromRoute ==
  \A e \in Records :
    /\ TELEMETRY[e].fallback_triggered
         => /\ TELEMETRY[e].fallback_channel \in {"WHATSAPP", "SMS"}
            /\ TELEMETRY[e].fallback_channel # TELEMETRY[e].chosen_channel
    /\ TELEMETRY[e].fallback_channel # Null <=> TELEMETRY[e].fallback_triggered

====
